---------------------------- MODULE Spec2Model ----------------------------
(***************************************************************************)
(* Cosmo Climb: the platformer scene (CosmoClimbScene) as a state machine. *)
(*                                                                         *)
(* Numbers.  The scene computes in floating point; the model computes in   *)
(* fixed point.  A length is an integer number of 1/Unit pixels            *)
(* (Unit = 200, so the gravity constant 0.055 px is exactly 11), a         *)
(* steering value is an integer number of 1/TiltUnit, a Math.random()      *)
(* outcome r in [0,1) is an integer in 0..RUnit-1.  Products that the code *)
(* rounds in floating point are truncated toward zero here.                *)
(*                                                                         *)
(* Randomness and the environment.  Every outcome the program does not     *)
(* choose (viewport size, device, the Math.random() outcomes of level      *)
(* generation, the frame period) is fixed by an environment record picked  *)
(* in the initial state; a phase of init() reads its outcomes from a       *)
(* periodic sequence of that record.                                       *)
(***************************************************************************)
EXTENDS Integers, Sequences, FiniteSets

VARIABLES
    env,        \* index into Envs: the environment of this run
    pc,         \* "walk", "reach": inside init(); "live": init() done; "destroyed"
    gen,        \* locals of init(): [platforms, y, i, k]
    scene,      \* the fields of the CosmoClimbScene object
    listeners,  \* the window event listeners of this scene that are registered
    ticker,     \* TRUE while update is registered on Ticker.shared
    timers,     \* pending callbacks: the setTimeout of each overlay shown and the
                \* requestPermission promises: [gameOver, win, permission |-> n]
    calls,      \* number of onGameOver invocations so far
    hist,       \* history of the run, read by the properties only
    db,         \* the Realtime Database record users/<uid> of the player
    ops         \* the calls of the database functions (firebase.ts) started
                \* so far, each with its position and its locals

vars == <<env, pc, gen, scene, listeners, ticker, timers, calls, hist, db, ops>>

-----------------------------------------------------------------------------
(* Fixed point *)

Unit == 2 * 100           \* model units per pixel
TiltUnit == 3 * 1000      \* steering units per 1.0
RUnit == 10 * 100         \* Math.random() outcomes per 1.0

Px(n) == n * Unit

Abs(a) == IF a < 0 THEN -a ELSE a
Min(a, b) == IF a < b THEN a ELSE b
Max(a, b) == IF a > b THEN a ELSE b

\* a / b truncated toward zero (b > 0)
TruncDiv(a, b) == IF a >= 0 THEN a \div b ELSE -((-a) \div b)

\* r * len for a random outcome r
Frac(r, len) == TruncDiv(r * len, RUnit)

\* (r - 0.5) * len for a random outcome r
Centered(r, len) == TruncDiv((r - (RUnit \div 2)) * len, RUnit)

\* floor(sqrt(n))
Isqrt(n) == CHOOSE r \in 0..46340 : r * r <= n /\ (r + 1) * (r + 1) > n

Last(s) == s[Len(s)]
Front(s) == SubSeq(s, 1, Len(s) - 1)

-----------------------------------------------------------------------------
(* Program constants (lengths in pixels unless said otherwise) *)

gravity == 11                  \* 0.055 px per frame per frame, in units
jumpHeight == 180
maxVelocityX == 7
platformSpacing == 60
platformWidth == 100
platformHeight == 20
mapHeight == 5000
solarStormSpeed == 140         \* 0.7 px per frame, in units
minDist == 80
edgeMargin == 60
numMonsters == 12
alienSize == 48

\* constructor: jumpVelocity = -Math.sqrt(2 * gravity * jumpHeight)
jumpVelocity == -Isqrt(2 * gravity * Px(jumpHeight))

\* init: jumpTime = Math.sqrt(2 * jumpHeight / gravity), kept in 1/100 frame
jumpTime100 == Isqrt((2 * Px(jumpHeight) * 10000) \div gravity)
maxJumpHeight == Px(jumpHeight)
maxHorizontalReach == (Px(maxVelocityX) * jumpTime100) \div 100


-----------------------------------------------------------------------------
(* The environment of a run *)

\* s repeated n times
RECURSIVE Rep(_, _)
Rep(s, n) == IF n = 0 THEN <<>> ELSE s \o Rep(s, n - 1)

\* Outcomes of the walk: the level at spawnY - 60 is always within minDist of
\* the spawn row, so its 20 tries (x, cluster?) are all rejected; then its step
Rejected(step) == Rep(<<500, 500>>, 20) \o <<step>>

\* One placed level of the walk: x, cluster?, texture, powerup?, step.
Level(x, step) == <<x, 500, 500, 500, step>>

\* One placed level with a broken platform: x, cluster?, texture, step.
LevelBroken(x, step) == <<x, 500, 900, step>>

\* One placed level with a powercell: x, cluster?, texture, powerup?, rocket?,
\* step; and one with a rocket.
LevelPowercell(x, step) == <<x, 500, 500, 50, 500, step>>
LevelRocket(x, step) == <<x, 500, 500, 50, 100, step>>

\* Math.random() outcomes of generateMonsters, four per monster in the order
\* the code draws them: y, x, vx, vy.  (createMonster's texture draw selects
\* no state.)
MonsFar == <<100, 900, 500, 500>>

Envs == <<
    \* 1: a column of platforms 104 px apart under the alien, the others at the
    \*    left edge; one monster near the top of the map drifting up and left
    [W |-> 800, H |-> 1050, device |-> "desktop", deltaMS |-> 17, stormHeight |-> 300,
     walk |-> Rejected(460) \o Rep(Level(500, 460) \o Level(0, 460), 60),
     reach |-> <<500>>, spawn |-> 500,
     mons |-> <<6, 660, 0, 0>> \o Rep(MonsFar, 11)],
    \* 2: three broken platforms under the alien, every other platform at the
    \*    edges of the viewport; one monster drifting right at the height where
    \*    the alien leaves the screen
    [W |-> 800, H |-> 400, device |-> "desktop", deltaMS |-> 17, stormHeight |-> 300,
     walk |-> Rejected(833) \o LevelBroken(500, 729) \o Level(0, 729)
              \o LevelBroken(500, 729) \o Level(999, 729) \o LevelBroken(500, 729)
              \o Rep(Level(0, 729) \o Level(999, 729), 50),
     reach |-> <<500>>, spawn |-> 500,
     mons |-> <<963, 980, 999, 500>> \o Rep(MonsFar, 11)],
    \* 3: a phone held sideways; two monsters at the same place above the alien
    [W |-> 844, H |-> 390, device |-> "android", deltaMS |-> 17, stormHeight |-> 300,
     walk |-> <<500>>, reach |-> <<500>>, spawn |-> 500,
     mons |-> <<999, 569, 500, 500, 999, 569, 500, 500>> \o Rep(MonsFar, 10)],
    \* 4: a desktop window; clusters, broken platforms and pickups; monsters
    \*    that move on the screen
    [W |-> 800, H |-> 500, device |-> "desktop", deltaMS |-> 17, stormHeight |-> 300,
     walk |-> <<137, 842, 455, 91, 660, 273, 708, 50, 389, 944, 512>>,
     reach |-> <<250, 750>>, spawn |-> 500,
     mons |-> <<960, 100, 900, 0, 930, 800, 100, 999>> \o Rep(MonsFar, 10)],
    \* 5: a wide window; every third platform at the left edge, the others at
    \*    the right edge, out of horizontal reach
    [W |-> 1400, H |-> 800, device |-> "desktop", deltaMS |-> 17, stormHeight |-> 300,
     walk |-> Rejected(750) \o Rep(Level(0, 750) \o Level(999, 750) \o Level(920, 750), 40),
     reach |-> <<500, 0, 999>>, spawn |-> 0, mons |-> MonsFar],
    \* 6: a phone held upright; every outcome small (clusters, pickups, rockets)
    [W |-> 390, H |-> 844, device |-> "ios", deltaMS |-> 33, stormHeight |-> 300,
     walk |-> <<50, 250, 600>>, reach |-> <<999>>, spawn |-> 999, mons |-> <<0, 0, 0, 0>>],
    \* 7: every outcome large (broken platforms, longest steps)
    [W |-> 1024, H |-> 768, device |-> "desktop", deltaMS |-> 16, stormHeight |-> 300,
     walk |-> <<999>>, reach |-> <<0>>, spawn |-> 250, mons |-> <<999, 999, 999, 999>>],
    \* 8: a small phone held upright; mixed outcomes
    [W |-> 320, H |-> 568, device |-> "android", deltaMS |-> 17, stormHeight |-> 300,
     walk |-> <<400, 120, 910, 350, 650, 20, 780>>, reach |-> <<600, 300>>,
     spawn |-> 750, mons |-> <<500, 250, 750, 250>>],
    \* 9: a column of platforms 104 px apart under the alien, in turn plain,
    \*    with a powercell, broken and with a rocket; the others at the left
    \*    edge; one monster to the right of the column, drifting down, that the
    \*    camera brings to the lower margin of the scene
    [W |-> 800, H |-> 1050, device |-> "desktop", deltaMS |-> 17, stormHeight |-> 300,
     walk |-> Rejected(460)
              \o Rep(Level(500, 460) \o Level(0, 460)
                       \o LevelPowercell(500, 460) \o Level(0, 460)
                       \o LevelBroken(500, 460) \o Level(0, 460)
                       \o LevelRocket(500, 460) \o Level(0, 460), 15),
     reach |-> <<500>>, spawn |-> 500,
     mons |-> <<992, 900, 500, 999>> \o Rep(MonsFar, 11)],
    \* 10: a tablet held upright, high enough for the hazard, which init() puts
    \*     840 px below the top of the screen, to begin on the alien
    [W |-> 1024, H |-> 1366, device |-> "ios", deltaMS |-> 17, stormHeight |-> 300,
     walk |-> <<300, 700, 150>>, reach |-> <<400>>, spawn |-> 500, mons |-> MonsFar],
    \* 11: a wide window; one platform with a powercell 138 px above the alien,
    \*     every other platform at the edges, out of horizontal reach of it and
    \*     of the right end of the spawn row, so that the reachability pass of
    \*     init() puts a platform of its own next to the powercell platform
    [W |-> 1400, H |-> 1050, device |-> "desktop", deltaMS |-> 17, stormHeight |-> 300,
     walk |-> Rejected(999) \o LevelPowercell(500, 460)
              \o Rep(Level(0, 460) \o Level(999, 460), 60),
     reach |-> <<200, 0>>, spawn |-> 500, mons |-> MonsFar],
    \* 12: slow frames (Ticker.shared.deltaMS at its maximum, 100 ms), so that a
    \*     thrust lasts 40 frames; one platform with a rocket 185 px above the
    \*     alien, where its first bounce tops out; the others at the edges, but
    \*     for one that the reachability pass of init() adds below the rocket
    [W |-> 800, H |-> 800, device |-> "desktop", deltaMS |-> 100, stormHeight |-> 300,
     walk |-> Rejected(625) \o Level(0, 729) \o LevelRocket(500, 460)
              \o Rep(Level(999, 460) \o Level(0, 460), 60),
     reach |-> <<500>>, spawn |-> 500, mons |-> MonsFar]
  >>

E == Envs[env]
W == E.W            \* app.renderer.width, pixels
H == E.H            \* app.renderer.height, pixels

Draw(pat, k) == pat[(k % Len(pat)) + 1]

-----------------------------------------------------------------------------
(* init(): level generation *)

\* init: spawnY = height - height * 0.2
SpawnY == Px(H) - (Px(H) \div 5)

\* init: platformCount = Math.ceil(width / platformWidth) + 1
platformCount == ((W + platformWidth - 1) \div platformWidth) + 1

\* init: the row of safe platforms at spawnY
bottomPlatforms ==
    [i \in 1..platformCount |->
        [x |-> Px((i - 1) * platformWidth) + (Px(platformWidth) \div 2)
                 - (Px(platformCount * platformWidth - W) \div 2),
         y |-> SpawnY, type |-> "normal", powerupType |-> "none"]]

initialMaxY == SpawnY - Px(mapHeight)

\* TooClose with half the minimum distance
TooCloseHalf(p, x, y) ==
    LET dx == p.x - x
        dy == p.y - y
    IN  /\ Abs(dx) < Px(minDist) \div 2
        /\ Abs(dy) < Px(minDist) \div 2
        /\ dx * dx + dy * dy < (Px(minDist) \div 2) * (Px(minDist) \div 2)

\* tryPlacePlatform: is p closer than minDist to (x, y)
TooClose(p, x, y) ==
    LET dx == p.x - x
        dy == p.y - y
    IN  /\ Abs(dx) < Px(minDist)
        /\ Abs(dy) < Px(minDist)
        /\ dx * dx + dy * dy < Px(minDist) * Px(minDist)

\* tryPlacePlatform(existing, x, y), reading random outcomes from index k on
tryPlacePlatform(existing, x, y, k) ==
    IF \E j \in 1..Len(existing) : TooClose(existing[j], x, y)
    THEN [placed |-> FALSE, platforms |-> existing, k |-> k]
    ELSE LET broken == (Draw(E.walk, k) * 4) \div RUnit = 3
             k1 == k + 1
             powerup == ~broken /\ Draw(E.walk, k1) < 100
             k2 == IF broken THEN k1 ELSE k1 + 1
             rocket == powerup /\ Draw(E.walk, k2) < 200
             k3 == IF powerup THEN k2 + 1 ELSE k2
             p == [x |-> x, y |-> y,
                   type |-> IF broken THEN "broken" ELSE "normal",
                   powerupType |-> IF rocket THEN "rocket"
                                   ELSE IF powerup THEN "powercell" ELSE "none"]
         IN  [placed |-> TRUE, platforms |-> Append(existing, p), k |-> k3]

\* init: `while (!placed && tries < 20)` at height y
RECURSIVE PlaceLoop(_, _, _, _)
PlaceLoop(ps, y, k, tries) ==
    IF tries >= 20 THEN [platforms |-> ps, k |-> k]
    ELSE
    LET x == Px(edgeMargin) + Frac(Draw(E.walk, k), Px(W - 2 * edgeMargin))
        k1 == k + 1
        cluster == Len(ps) > 0 /\ Draw(E.walk, k1) < 300
        k2 == IF Len(ps) > 0 THEN k1 + 1 ELSE k1
        clusterX == Last(ps).x + Centered(Draw(E.walk, k2), Px(120))
        k3 == IF cluster THEN k2 + 1 ELSE k2
        inside == cluster /\ clusterX > Px(edgeMargin) /\ clusterX < Px(W - edgeMargin)
        k4 == IF inside THEN k3 + 1 ELSE k3
        c == IF inside /\ Draw(E.walk, k3) < 500
             THEN tryPlacePlatform(ps, clusterX, y, k4)
             ELSE [placed |-> FALSE, platforms |-> ps, k |-> k4]
        d == tryPlacePlatform(ps, x, y, c.k)
    IN  IF c.placed THEN [platforms |-> c.platforms, k |-> c.k]
        ELSE IF d.placed THEN [platforms |-> d.platforms, k |-> d.k]
        \* the next try, from index d.k (kk is d.k, evaluated once)
        ELSE CHOOSE r \in {PlaceLoop(ps, y, kk, tries + 1) : kk \in {d.k}} : TRUE

\* Array.prototype.sort is stable: p goes behind every element of the sorted
\* s that does not come after it
InsertDesc(s, p) ==
    LET n == Cardinality({j \in 1..Len(s) : s[j].y >= p.y})
    IN  SubSeq(s, 1, n) \o <<p>> \o SubSeq(s, n + 1, Len(s))

\* platforms.sort((a, b) => b.y - a.y): stable, by y descending
SortDesc(s) ==
    LET before(i) == Cardinality({j \in 1..Len(s) :
                        s[j].y > s[i].y \/ (s[j].y = s[i].y /\ j < i)})
    IN  [r \in 1..Len(s) |-> s[CHOOSE i \in 1..Len(s) : before(i) = r - 1]]

\* Reachable with the horizontal test left out
ReachableVertical(ps, i) ==
    \E j \in 1..Len(ps) :
        /\ j # i
        /\ ps[j].y < ps[i].y
        /\ ps[j].y > ps[i].y - maxJumpHeight

\* init: does some other platform lie above platform i within jump range
Reachable(ps, i) ==
    \E j \in 1..Len(ps) :
        /\ j # i
        /\ ps[j].y < ps[i].y
        /\ ps[j].y > ps[i].y - maxJumpHeight
        /\ Abs(ps[j].x - ps[i].x) <= maxHorizontalReach


\* addPlatformToScene(p): the platform with its sprite, and its powerup sprite
\* 24 px above it; id is its identity in the scene
addPlatformToScene(p, id) ==
    [id |-> id, x |-> p.x, y |-> p.y, type |-> p.type, powerupType |-> p.powerupType,
     spriteY |-> p.y,
     powerupY |-> IF p.powerupType = "none" THEN 0 ELSE p.y - Px(24)]

\* createMonster(y, x) for monster n of generateMonsters
createMonster(n) ==
    LET k == 4 * (n - 1)
        mapStartY == SpawnY - Px(mapHeight) + Px(200)
        mapEndY == SpawnY - Px(200)
        y == mapStartY + Frac(Draw(E.mons, k), mapEndY - mapStartY)
        x == Px(edgeMargin) + Frac(Draw(E.mons, k + 1), Px(W - 2 * edgeMargin))
    IN  [id |-> n, x |-> x, y |-> y, spriteX |-> x, spriteY |-> y,
         vx |-> Centered(Draw(E.mons, k + 2), (3 * Unit) \div 2),
         vy |-> Centered(Draw(E.mons, k + 3), Unit \div 2)]

\* no platform landed on in a frame
NoLanding == [id |-> 0, type |-> "none", powerupType |-> "none"]

-----------------------------------------------------------------------------
(* The player's record in the Realtime Database (firebase.ts).  A number   *)
(* that is not stored is NoValue, a song status that is not stored "none". *)

STATUS_ORDER ==
    <<"locked", "unlocked-unplayed", "unlocked-one-star", "unlocked-two-star",
      "unlocked-three-star", "unlocked-gold">>

\* STATUS_ORDER.indexOf(status): 0-based, -1 when status is not in the list
IndexOf(status) ==
    IF \E i \in 1..Len(STATUS_ORDER) : STATUS_ORDER[i] = status
    THEN (CHOOSE i \in 1..Len(STATUS_ORDER) : STATUS_ORDER[i] = status) - 1
    ELSE -1

NoValue == -1

numSongs == 9

\* no data at users/<uid>
NoRecord ==
    [coins |-> NoValue, high_score |-> NoValue,
     songs |-> [i \in 0..(numSongs - 1) |-> "none"]]

initialSongsStatus ==
    [i \in 0..(numSongs - 1) |-> IF i = 0 THEN "unlocked-unplayed" ELSE "locked"]

\* the record initAnonymousUser writes
SeedRecord == [coins |-> 0, high_score |-> 0, songs |-> initialSongsStatus]

\* snap.exists() of a get on users/<uid>
RecordExists(r) ==
    \/ r.coins # NoValue
    \/ r.high_score # NoValue
    \/ \E i \in DOMAIN r.songs : r.songs[i] # "none"

-----------------------------------------------------------------------------
(* The scene after construction *)

\* the field initialisers of the class
NewScene ==
    [alienX |-> 0, alienY |-> 0, alienWorldY |-> 0,
     velocityX |-> 0, velocityY |-> 0,
     tilt |-> 0, keyboardTilt |-> 0, usingKeyboard |-> FALSE,
     score |-> 0, highestY |-> 0, isGameOver |-> FALSE,
     rocketActive |-> FALSE, rocketTimer |-> 0, powercellActive |-> FALSE,
     tiltPermissionGranted |-> FALSE, startOverlay |-> FALSE, gameStarted |-> FALSE,
     spawnY |-> 0, platforms |-> <<>>, monsters |-> <<>>,
     solarStormY |-> 0, stormY |-> 0, stormVisible |-> FALSE,
     shownGameOver |-> 0, shownWin |-> 0, popups |-> 0]

isMobileDevice == E.device # "desktop"
isMobileWithPermissionPrompt == E.device = "ios"

\* the scene after construction
InitScene(envs) ==
    /\ env \in envs
    /\ pc = "walk"
    /\ gen = [platforms |-> bottomPlatforms, y |-> SpawnY - Px(platformSpacing),
              i |-> 0, k |-> 0]
    /\ scene = [NewScene EXCEPT !.spawnY = SpawnY]
    /\ listeners = {}
    /\ ticker = FALSE
    /\ timers = [gameOver |-> 0, win |-> 0, permission |-> 0]
    /\ calls = 0
    /\ hist = [frames |-> 0, inputs |-> 0, dy |-> 0, shifts |-> 0,
               tick |-> "none", landed |-> NoLanding,
               granted |-> 0, denied |-> 0, dismissed |-> 0,
               held |-> {}, collected |-> {}, boosted |-> {}, rejected |-> 0,
               synth |-> {}]

\* a new player: no record, no call made
Init0(envs) ==
    /\ InitScene(envs)
    /\ db = NoRecord
    /\ ops = <<>>

\* WalkStep without `y -= platformSpacing * (0.5 + Math.random() * 0.8)`
WalkStepLevel ==
    /\ pc = "walk"
    /\ gen.y > initialMaxY
    /\ LET r == PlaceLoop(gen.platforms, gen.y, gen.k, 0)
       IN  /\ gen' = [gen EXCEPT !.platforms = r.platforms,
                                 !.k = (r.k + 1) % Len(E.walk)]
           /\ hist' = IF r.platforms = gen.platforms
                      THEN [hist EXCEPT !.rejected = @ + 1] ELSE hist
    /\ UNCHANGED <<db, ops, env, pc, scene, listeners, ticker, timers, calls>>

\* init: one pass of `while (y > initialMaxY)`
WalkStep ==
    /\ pc = "walk"
    /\ gen.y > initialMaxY
    /\ LET r == PlaceLoop(gen.platforms, gen.y, gen.k, 0)
           step == (Px(platformSpacing) \div 2)
                     + Frac(Draw(E.walk, r.k), (Px(platformSpacing) * 8) \div 10)
       IN  /\ gen' = [gen EXCEPT !.platforms = r.platforms,
                                 !.y = gen.y - step,
                                 !.k = (r.k + 1) % Len(E.walk)]
           /\ hist' = IF r.platforms = gen.platforms
                      THEN [hist EXCEPT !.rejected = @ + 1] ELSE hist
    /\ UNCHANGED <<db, ops, env, pc, scene, listeners, ticker, timers, calls>>

\* init: the walk is over; sort bottom to top
WalkDone ==
    /\ pc = "walk"
    /\ gen.y <= initialMaxY
    /\ gen' = [gen EXCEPT !.platforms = SortDesc(gen.platforms), !.i = 0, !.k = 0]
    /\ pc' = "reach"
    /\ UNCHANGED <<db, ops, env, scene, listeners, ticker, timers, calls, hist>>

\* init: one pass of `for (let i = 0; i < platforms.length; i++)`
ReachStep ==
    /\ pc = "reach"
    /\ gen.i < Len(gen.platforms)
    /\ LET ps == gen.platforms
           p == ps[gen.i + 1]
           newY == p.y - ((maxJumpHeight * 7) \div 10
                            + Frac(Draw(E.reach, gen.k), (maxJumpHeight * 3) \div 10))
           minX == Max(Px(edgeMargin), p.x - maxHorizontalReach)
           maxX == Min(Px(W - edgeMargin), p.x + maxHorizontalReach)
           newX == minX + Frac(Draw(E.reach, gen.k + 1), maxX - minX)
           newPlat == [x |-> newX, y |-> newY, type |-> "normal", powerupType |-> "none"]
       IN  IF Reachable(ps, gen.i + 1)
           THEN gen' = [gen EXCEPT !.i = gen.i + 1] /\ hist' = hist
           ELSE IF newY < initialMaxY
           THEN /\ gen' = [gen EXCEPT !.i = gen.i + 1,
                                      !.k = (gen.k + 1) % Len(E.reach)]
                /\ hist' = hist
           \* push, then sort: ps is sorted already, so the sort inserts newPlat
           ELSE /\ gen' = [gen EXCEPT !.platforms = InsertDesc(ps, newPlat),
                                      !.i = gen.i + 1,
                                      !.k = (gen.k + 2) % Len(E.reach)]
                /\ hist' = [hist EXCEPT !.synth = @ \cup {<<newX, newY>>}]
    /\ UNCHANGED <<db, ops, env, pc, scene, listeners, ticker, timers, calls>>

\* init: the rest of it, from `this.platforms = platforms` to Ticker.shared.add
InitFinish ==
    /\ pc = "reach"
    /\ gen.i >= Len(gen.platforms)
    /\ LET safePlatform == bottomPlatforms[((E.spawn * platformCount) \div RUnit) + 1]
           alienY == safePlatform.y - Px(32)
       IN  scene' = [scene EXCEPT
               !.platforms = [j \in 1..Len(gen.platforms) |->
                                 addPlatformToScene(gen.platforms[j], j)],
               !.alienX = safePlatform.x,
               !.alienY = alienY,
               !.alienWorldY = alienY,
               !.highestY = alienY,
               !.velocityY = 0,
               !.monsters = [n \in 1..numMonsters |-> createMonster(n)],
               !.stormY = Px(600),
               !.solarStormY = alienY + Px(840),
               !.stormVisible = FALSE,
               !.startOverlay = TRUE,
               !.tiltPermissionGranted =
                   isMobileDevice /\ ~isMobileWithPermissionPrompt]
    /\ listeners' = {"keydown", "keyup"} \cup
           (IF isMobileDevice /\ ~isMobileWithPermissionPrompt
            THEN {"deviceorientation", "orientationchange"} ELSE {})
    /\ ticker' = TRUE
    /\ pc' = "live"
    /\ gen' = [platforms |-> <<>>, y |-> 0, i |-> 0, k |-> 0]
    /\ UNCHANGED <<db, ops, env, timers, calls, hist>>


-----------------------------------------------------------------------------
(* update(): one frame.  Each operator below is one stretch of update, in  *)
(* the order update runs them; s is the scene.                             *)

alienHalf == Px(alienSize) \div 2

\* showGameOver() / showWinOverlay(): one more overlay, one more timer
showGameOver(s) == [s EXCEPT !.shownGameOver = @ + 1]
showWinOverlay(s) == [s EXCEPT !.shownWin = @ + 1]

\* effectiveTilt of update: what a frame steers by
effectiveTilt(s) ==
    IF s.usingKeyboard THEN s.keyboardTilt ELSE s.tilt

\* tilt decay under keyboard, horizontal velocity, position, wrap
steer(s) ==
    LET tilt == IF s.usingKeyboard THEN TruncDiv(s.tilt * 9, 10) ELSE s.tilt
        v1 == s.velocityX
                + TruncDiv(effectiveTilt([s EXCEPT !.tilt = tilt]) * 3 * Unit, 10 * TiltUnit)
        v2 == TruncDiv(v1 * 92, 100)
        v3 == Max(-Px(maxVelocityX), Min(Px(maxVelocityX), v2))
        x1 == s.alienX + v3
        x2 == IF x1 < 0 THEN Px(W) ELSE x1
        x3 == IF x2 > Px(W) THEN 0 ELSE x2
    IN  [s EXCEPT !.tilt = tilt, !.velocityX = v3, !.alienX = x3]

maxRocketSpeed == (Abs(jumpVelocity) * 95) \div 100

\* thrust with gravity left out for a body at rest
thrustResting(s, deltaMS) ==
    LET timer == s.rocketTimer - deltaMS
        vy == IF s.rocketActive THEN -maxRocketSpeed
              ELSE IF s.velocityY = 0 THEN 0 ELSE s.velocityY + gravity
    IN  [s EXCEPT !.velocityY = vy,
                  !.rocketTimer = IF s.rocketActive THEN timer ELSE @,
                  !.rocketActive = s.rocketActive /\ ~(timer <= 0),
                  !.alienY = @ + vy,
                  !.alienWorldY = @ + vy]

\* thrust with the rocket climbing at the jump velocity, uncapped
thrustUncapped(s, deltaMS) ==
    LET timer == s.rocketTimer - deltaMS
        vy == IF s.rocketActive THEN jumpVelocity ELSE s.velocityY + gravity
    IN  [s EXCEPT !.velocityY = vy,
                  !.rocketTimer = IF s.rocketActive THEN timer ELSE @,
                  !.rocketActive = s.rocketActive /\ ~(timer <= 0),
                  !.alienY = @ + vy,
                  !.alienWorldY = @ + vy]

\* gravity or rocket, then the vertical move
thrust(s, deltaMS) ==
    LET timer == s.rocketTimer - deltaMS
        vy == IF s.rocketActive THEN -maxRocketSpeed ELSE s.velocityY + gravity
    IN  [s EXCEPT !.velocityY = vy,
                  !.rocketTimer = IF s.rocketActive THEN timer ELSE @,
                  !.rocketActive = s.rocketActive /\ ~(timer <= 0),
                  !.alienY = @ + vy,
                  !.alienWorldY = @ + vy]

\* the platform test of the collision loop
Touches(s, p) ==
    /\ Abs(s.alienX - p.x) < Px(platformWidth) \div 2
    /\ Abs(s.alienY + alienHalf - p.spriteY) < Px(platformHeight) \div 2

boost(v) == TruncDiv(v * 17, 10)

\* bounce with the powercell pickup multiplying the impulse already chosen
bounceStacked(s, p) ==
    LET jumpV == IF s.powercellActive THEN boost(jumpVelocity) ELSE jumpVelocity
    IN  [s EXCEPT
            !.powercellActive = FALSE,
            !.velocityY = IF p.powerupType = "powercell" THEN boost(jumpV) ELSE jumpV,
            !.rocketActive = IF p.powerupType = "rocket" THEN TRUE ELSE @,
            !.rocketTimer = IF p.powerupType = "rocket" THEN 4000 ELSE @]

\* bounce with the powercell kept for the next landing
bounceDeferred(s, p) ==
    LET jumpV == IF s.powercellActive THEN boost(jumpVelocity) ELSE jumpVelocity
    IN  [s EXCEPT
            !.powercellActive = p.powerupType = "powercell",
            !.velocityY = jumpV,
            !.rocketActive = IF p.powerupType = "rocket" THEN TRUE ELSE @,
            !.rocketTimer = IF p.powerupType = "rocket" THEN 4000 ELSE @]

\* what a landing on platform p does to the alien and the powers
bounce(s, p) ==
    LET jumpV == IF s.powercellActive THEN boost(jumpVelocity) ELSE jumpVelocity
    IN  [s EXCEPT
            !.powercellActive = FALSE,
            !.velocityY = IF p.powerupType = "powercell"
                          THEN boost(jumpVelocity) ELSE jumpV,
            !.rocketActive = IF p.powerupType = "rocket" THEN TRUE ELSE @,
            !.rocketTimer = IF p.powerupType = "rocket" THEN 4000 ELSE @]

RemoveAt(seq, i) == SubSeq(seq, 1, i - 1) \o SubSeq(seq, i + 1, Len(seq))

\* land with the broken platform left in place
landKeepBroken(s) ==
    LET hits == {i \in 1..Len(s.platforms) : Touches(s, s.platforms[i])}
        i == CHOOSE j \in hits : \A h \in hits : j <= h
        p == s.platforms[i]
        b == bounce(s, p)
    IN  IF s.rocketActive \/ ~(s.velocityY > 0) \/ hits = {} THEN s
        ELSE [b EXCEPT !.platforms[i].powerupType = "none",
                       !.platforms[i].powerupY = 0]

\* land with the last platform touched winning
landLast(s) ==
    LET hits == {i \in 1..Len(s.platforms) : Touches(s, s.platforms[i])}
        i == CHOOSE j \in hits : \A h \in hits : j >= h
        p == s.platforms[i]
        b == bounce(s, p)
    IN  IF s.rocketActive \/ ~(s.velocityY > 0) \/ hits = {} THEN s
        ELSE IF p.type = "broken"
        THEN [b EXCEPT !.platforms = RemoveAt(@, i)]
        ELSE [b EXCEPT !.platforms[i].powerupType = "none",
                       !.platforms[i].powerupY = 0]

\* land with the pickup left on the platform
landKeepPickup(s) ==
    LET hits == {i \in 1..Len(s.platforms) : Touches(s, s.platforms[i])}
        i == CHOOSE j \in hits : \A h \in hits : j <= h
        p == s.platforms[i]
        b == bounce(s, p)
    IN  IF s.rocketActive \/ ~(s.velocityY > 0) \/ hits = {} THEN s
        ELSE IF p.type = "broken"
        THEN [b EXCEPT !.platforms = RemoveAt(@, i)]
        ELSE b

\* platform collision: the first platform touched, only while falling
land(s) ==
    LET hits == {i \in 1..Len(s.platforms) : Touches(s, s.platforms[i])}
        i == CHOOSE j \in hits : \A h \in hits : j <= h
        p == s.platforms[i]
        b == bounce(s, p)
    IN  IF s.rocketActive \/ ~(s.velocityY > 0) \/ hits = {} THEN s
        ELSE IF p.type = "broken"
        THEN [b EXCEPT !.platforms = RemoveAt(@, i)]
        ELSE [b EXCEPT !.platforms[i].powerupType = "none",
                       !.platforms[i].powerupY = 0]

\* the platform the collision loop lands on in a scene that has made its
\* vertical move (NoLanding: none)
landing(s) ==
    LET hits == {i \in 1..Len(s.platforms) : Touches(s, s.platforms[i])}
        i == CHOOSE j \in hits : \A h \in hits : j <= h
        p == s.platforms[i]
    IN  IF s.rocketActive \/ ~(s.velocityY > 0) \/ hits = {} THEN NoLanding
        ELSE [id |-> p.id, type |-> p.type, powerupType |-> p.powerupType]

\* cameraDy without `if (this.alien.y < screenMidY)`
cameraDyUnguarded(s) == Px(H) \div 2 - s.alienY

\* the camera delta of this frame (0 when the camera does not move)
cameraDy(s) == IF s.alienY < Px(H) \div 2 THEN Px(H) \div 2 - s.alienY ELSE 0

\* ShiftPlatform that leaves the pickup where it was
ShiftPlatformOnly(p, dy) == [p EXCEPT !.spriteY = @ + dy]

ShiftPlatform(p, dy) ==
    [p EXCEPT !.spriteY = @ + dy,
              !.powerupY = IF p.powerupType = "none" THEN @ ELSE @ + dy]

ShiftMonster(m, dy) == [m EXCEPT !.spriteY = @ + dy]

\* follow without `this.highestY -= dy`
followUnanchored(s) ==
    LET dy == cameraDy(s)
    IN  IF dy = 0 THEN s
        ELSE [s EXCEPT
                !.alienY = Px(H) \div 2,
                !.score = @ + (dy \div Unit),
                !.platforms = [i \in 1..Len(@) |-> ShiftPlatform(@[i], dy)],
                !.monsters = [i \in 1..Len(@) |-> ShiftMonster(@[i], dy)],
                !.stormY = @ + dy]

\* follow with the score rounded up: Math.ceil(dy) for Math.floor(dy)
followCeil(s) ==
    LET dy == cameraDy(s)
    IN  IF dy = 0 THEN s
        ELSE [s EXCEPT
                !.alienY = Px(H) \div 2,
                !.highestY = @ - dy,
                !.score = @ + ((dy + Unit - 1) \div Unit),
                !.platforms = [i \in 1..Len(@) |-> ShiftPlatform(@[i], dy)],
                !.monsters = [i \in 1..Len(@) |-> ShiftMonster(@[i], dy)],
                !.stormY = @ + dy]

\* camera follows the alien above the screen midpoint
follow(s) ==
    LET dy == cameraDy(s)
    IN  IF dy = 0 THEN s
        ELSE [s EXCEPT
                !.alienY = Px(H) \div 2,
                !.highestY = @ - dy,
                !.score = @ + (dy \div Unit),
                !.platforms = [i \in 1..Len(@) |-> ShiftPlatform(@[i], dy)],
                !.monsters = [i \in 1..Len(@) |-> ShiftMonster(@[i], dy)],
                !.stormY = @ + dy]

\* stormClimb without the cap
stormClimbNoCap(s) == s.solarStormY - solarStormSpeed

\* stormClimb that always puts the storm at the cap
stormClimbPinned(s) == s.highestY + (s.alienY - alienHalf) + Px(500)

\* stormClimb of a storm that stands still until the cap pulls it up
stormClimbStill(s) ==
    LET y1 == s.solarStormY
        maxStormTop == (s.alienY - alienHalf) + Px(500)
    IN  IF y1 - s.highestY > maxStormTop THEN s.highestY + maxStormTop ELSE y1

\* updateSolarStorm: the capped world position of the storm top
stormClimb(s) ==
    LET y1 == s.solarStormY - solarStormSpeed
        maxStormTop == (s.alienY - alienHalf) + Px(500)
    IN  IF y1 - s.highestY > maxStormTop THEN s.highestY + maxStormTop ELSE y1

\* updateSolarStorm: does the storm rectangle overlap the alien
stormHits(s) ==
    /\ s.alienY + alienHalf > s.stormY
    /\ s.alienY - alienHalf < s.stormY + Px(E.stormHeight)
    /\ s.alienX + alienHalf > 0
    /\ s.alienX - alienHalf < Px(W)

\* updateSolarStorm without `this.solarStorm.y = this.solarStormY - this.highestY`
updateSolarStormStale(s) ==
    LET t == [s EXCEPT !.solarStormY = stormClimb(s)]
    IN  IF stormHits(t) THEN showGameOver([t EXCEPT !.isGameOver = TRUE]) ELSE t

\* updateSolarStorm(): climb, cap, place on the screen, test the overlap
updateSolarStorm(s) ==
    LET y == stormClimb(s)
        t == [s EXCEPT !.solarStormY = y, !.stormY = y - s.highestY]
    IN  IF stormHits(t) THEN showGameOver([t EXCEPT !.isGameOver = TRUE]) ELSE t

\* is the sprite not yet more than 50 px below the screen
OnScreen(o) == ~(o.spriteY > Px(H) + Px(50))

\* cull with no margin: whatever is below the viewport goes
cullAtEdge(s) ==
    [s EXCEPT !.monsters = SelectSeq(@, LAMBDA o : ~(o.spriteY > Px(H))),
              !.platforms = SelectSeq(@, LAMBDA o : ~(o.spriteY > Px(H)))]

\* cull that puts a platform gone below the screen back at the top of the
\* screen as a new platform
cullRecycle(s) ==
    [s EXCEPT !.monsters = SelectSeq(@, OnScreen),
              !.platforms = [i \in 1..Len(@) |->
                                IF OnScreen(@[i]) THEN @[i]
                                ELSE [@[i] EXCEPT !.id = @ + 1000,
                                                  !.spriteY = 0]]]

\* monsters, then platforms, that have gone below the screen are removed
cull(s) ==
    [s EXCEPT !.monsters = SelectSeq(@, OnScreen),
              !.platforms = SelectSeq(@, OnScreen)]

MoveMonster(m) ==
    LET x == m.spriteX + m.vx
        y == m.spriteY + m.vy
    IN  [m EXCEPT !.spriteX = x, !.spriteY = y,
                  !.vx = IF x < Px(24) \/ x > Px(W - 24) THEN -m.vx ELSE m.vx,
                  !.vy = IF y < 0 \/ y > Px(H - 200) THEN -m.vy ELSE m.vy]

MonsterHits(s, m) ==
    /\ Abs(s.alienX - m.spriteX) < Px(32)
    /\ Abs(s.alienY - m.spriteY) < Px(32)

\* moveMonsters with each monster tested where it was before its move
moveMonstersStale(s) ==
    LET moved == [i \in 1..Len(s.monsters) |-> MoveMonster(s.monsters[i])]
        n == Cardinality({i \in 1..Len(moved) : MonsterHits(s, s.monsters[i])})
    IN  [s EXCEPT !.monsters = moved,
                  !.isGameOver = @ \/ n > 0,
                  !.shownGameOver = @ + n]

\* monsters move; each monster that touches the alien ends the run
moveMonsters(s) ==
    LET moved == [i \in 1..Len(s.monsters) |-> MoveMonster(s.monsters[i])]
        n == Cardinality({i \in 1..Len(moved) : MonsterHits(s, moved[i])})
    IN  [s EXCEPT !.monsters = moved,
                  !.isGameOver = @ \/ n > 0,
                  !.shownGameOver = @ + n]

\* game over if the alien falls off the bottom
fallCheck(s) ==
    IF s.alienY > Px(H) THEN showGameOver([s EXCEPT !.isGameOver = TRUE]) ELSE s

\* currentHeight measured from where the alien spawned, 32 px above spawnY
currentHeightClimbed(s) == (s.spawnY - Px(32)) - s.alienWorldY

currentHeight(s) == s.spawnY - s.alienWorldY

\* win condition
winCheck(s) ==
    IF currentHeight(s) >= Px(5000)
    THEN showWinOverlay([s EXCEPT !.isGameOver = TRUE]) ELSE s

\* the element of a set of one.  One statement after another is written
\* Only({g(t) : t \in {f(s)}}): f(s) is computed once however often g reads it
Only(S) == CHOOSE r \in S : TRUE

\* update, up to the camera step
physics(s, deltaMS) == Only({land(t) : t \in {thrust(steer(s), deltaMS)}})

\* update without the isGameOver half of its guard
updateWhenOver(s, deltaMS) ==
    IF ~s.gameStarted THEN s
    ELSE winCheck(fallCheck(moveMonsters(cull(
            updateSolarStorm(follow(physics(s, deltaMS)))))))

\* update without the gameStarted half of its guard
updateUnstarted(s, deltaMS) ==
    IF s.isGameOver THEN s
    ELSE winCheck(fallCheck(moveMonsters(cull(
            updateSolarStorm(follow(physics(s, deltaMS)))))))

update(s, deltaMS) ==
    IF s.isGameOver \/ ~s.gameStarted THEN s
    ELSE Only({winCheck(s6) : s6 \in {fallCheck(s5) : s5 \in
            {moveMonsters(s4) : s4 \in {cull(s3) : s3 \in
            {updateSolarStorm(s2) : s2 \in {follow(s1) : s1 \in
            {physics(s, deltaMS)}}}}}}})


-----------------------------------------------------------------------------
(* Event handlers *)

\* startGame() that also clears the terminal flag
startGameFresh(s) ==
    [s EXCEPT !.gameStarted = TRUE, !.stormVisible = TRUE,
              !.tilt = 0, !.velocityX = 0,
              !.usingKeyboard = FALSE, !.keyboardTilt = 0,
              !.startOverlay = FALSE, !.isGameOver = FALSE]

\* startGame()
startGame(s) ==
    [s EXCEPT !.gameStarted = TRUE, !.stormVisible = TRUE,
              !.tilt = 0, !.velocityX = 0,
              !.usingKeyboard = FALSE, !.keyboardTilt = 0,
              !.startOverlay = FALSE]

LeftKeys == {"ArrowLeft", "a", "A"}
RightKeys == {"ArrowRight", "d", "D"}

handleKeyDown(s, key) ==
    IF key \in LeftKeys
    THEN [s EXCEPT !.keyboardTilt = -((4 * TiltUnit) \div 10), !.usingKeyboard = TRUE]
    ELSE IF key \in RightKeys
    THEN [s EXCEPT !.keyboardTilt = (4 * TiltUnit) \div 10, !.usingKeyboard = TRUE]
    ELSE s

handleKeyUp(s, key) ==
    IF key \in LeftKeys \cup RightKeys
    THEN [s EXCEPT !.keyboardTilt = 0, !.usingKeyboard = FALSE]
    ELSE s

\* An angle of a DeviceOrientationEvent: null, or whole degrees
Null == [null |-> TRUE, deg |-> 0]
Deg(d) == [null |-> FALSE, deg |-> d]

\* handleTilt without the clamp to maxTilt
handleTiltUnclamped(s, gamma, beta) ==
    IF s.usingKeyboard \/ gamma.null \/ beta.null THEN s
    ELSE LET primary == IF Abs(gamma.deg) > Abs(beta.deg) THEN gamma.deg ELSE beta.deg
             tiltValue == IF Abs(primary) < 5 THEN 0 ELSE primary
         IN  [s EXCEPT !.tilt = TruncDiv(tiltValue * TiltUnit * 8, 30 * 10)]

\* handleTilt(event) with event.gamma = gamma and event.beta = beta
handleTilt(s, gamma, beta) ==
    IF s.usingKeyboard \/ gamma.null \/ beta.null THEN s
    ELSE LET primary == IF Abs(gamma.deg) > Abs(beta.deg) THEN gamma.deg ELSE beta.deg
             tiltValue == IF Abs(primary) < 5 THEN 0 ELSE primary
             normalizedTilt == Max(-30, Min(30, tiltValue))
         IN  [s EXCEPT !.tilt = TruncDiv(normalizedTilt * TiltUnit * 8, 30 * 10)]

\* handleDeviceOrientationChange -> calibrateTiltControls
calibrateTiltControls(s) == [s EXCEPT !.tilt = 0, !.velocityX = 0]

Playing(s) == s.gameStarted /\ ~s.isGameOver

\* The frame callback: Ticker.shared calls update
Tick ==
    /\ pc = "live"
    /\ ticker
    /\ \E t \in {update(scene, E.deltaMS)},
          dy \in {cameraDy(s1) : s1 \in {physics(scene, E.deltaMS)}},
          on \in {landing(s1) : s1 \in {thrust(steer(scene), E.deltaMS)}} :
           /\ scene' = t
           /\ timers' = [timers EXCEPT
                  !.gameOver = @ + (t.shownGameOver - scene.shownGameOver),
                  !.win = @ + (t.shownWin - scene.shownWin)]
           /\ hist' = IF Playing(scene)
                      THEN [hist EXCEPT !.frames = @ + 1, !.dy = dy,
                                        !.shifts = IF dy > 0 THEN @ + 1 ELSE @,
                                        !.tick = "frame",
                                        !.landed = on,
                                        !.collected =
                                            IF on.powerupType = "none" THEN @
                                            ELSE @ \cup {on.id},
                                        !.boosted =
                                            IF on.powerupType = "powercell"
                                            THEN @ \cup {on.id} ELSE @]
                      ELSE [hist EXCEPT !.tick = IF scene.gameStarted
                                                 THEN "ended" ELSE "frozen"]
    /\ UNCHANGED <<db, ops, env, pc, gen, listeners, ticker, calls>>

\* pointerdown on the start overlay (a device that asks no permission)
Start ==
    /\ pc = "live"
    /\ scene.startOverlay
    /\ ~isMobileWithPermissionPrompt
    /\ scene' = startGame([scene EXCEPT !.tiltPermissionGranted = @ \/ isMobileDevice])
    /\ listeners' = listeners \cup
           (IF isMobileDevice THEN {"deviceorientation", "orientationchange"} ELSE {})
    /\ UNCHANGED <<db, ops, env, pc, gen, ticker, timers, calls, hist>>

\* the 2000 ms timer of an overlay fires: the overlay goes, onGameOver is called
TimerFire ==
    /\ \E kind \in {"gameOver", "win"} :
          /\ timers[kind] > 0
          /\ timers' = [timers EXCEPT ![kind] = @ - 1]
    /\ calls' = calls + 1
    /\ UNCHANGED <<db, ops, env, pc, gen, scene, listeners, ticker, hist>>

Keys == {"ArrowLeft", "ArrowRight", "x"}
Angles == {Null, Deg(-20), Deg(3), Deg(45)}

Input(s) == hist' = [hist EXCEPT !.inputs = @ + 1] /\ scene' = s
            /\ UNCHANGED <<db, ops, env, pc, gen, listeners, ticker, timers, calls>>

\* a key event: held is the set of keys that the events delivered so far say
\* are down
KeyInput(s, held) ==
    /\ hist' = [hist EXCEPT !.inputs = @ + 1, !.held = held]
    /\ scene' = s
    /\ UNCHANGED <<db, ops, env, pc, gen, listeners, ticker, timers, calls>>

\* keydown of a key (the first, or an auto-repeat of a key that is down)
KeyDown ==
    /\ "keydown" \in listeners
    /\ \E key \in Keys : KeyInput(handleKeyDown(scene, key), hist.held \cup {key})

\* keyup of a key (one that went down before the listeners were registered
\* included)
KeyUp ==
    /\ "keyup" \in listeners
    /\ \E key \in Keys : KeyInput(handleKeyUp(scene, key), hist.held \ {key})

Tilt ==
    /\ "deviceorientation" \in listeners
    /\ \E gamma \in Angles, beta \in Angles : Input(handleTilt(scene, gamma, beta))

OrientationChange ==
    /\ "orientationchange" \in listeners
    /\ Input(calibrateTiltControls(scene))

\* pointerdown on the start overlay of a device that asks for permission:
\* DeviceOrientationEvent.requestPermission() is called and its promise is
\* pending; the overlay stays, so it can be tapped again
TapStart ==
    /\ pc = "live"
    /\ scene.startOverlay
    /\ isMobileWithPermissionPrompt
    /\ timers' = [timers EXCEPT !.permission = @ + 1]
    /\ UNCHANGED <<db, ops, env, pc, gen, scene, listeners, ticker, calls, hist>>

\* showPermissionDeniedPopup(message): one more popup on the scene
showPermissionDeniedPopup(s) == [s EXCEPT !.popups = @ + 1]

\* popup.on('pointerdown'): without the startGame() call
dismissPopupOnly(s) == [s EXCEPT !.popups = @ - 1]

\* popup.on('pointerdown'): the popup goes and the game starts
dismissPopup(s) == startGame([s EXCEPT !.popups = @ - 1])

\* the promise of requestPermission() resolves with 'granted': the .then
\* callback registers the tilt listeners and starts the game.  The callback
\* does not look at whether the scene has been destroyed meanwhile.
PermissionGranted ==
    /\ timers.permission > 0
    /\ timers' = [timers EXCEPT !.permission = @ - 1]
    /\ listeners' = listeners \cup {"deviceorientation", "orientationchange"}
    /\ scene' = startGame([scene EXCEPT !.tiltPermissionGranted = TRUE])
    /\ hist' = [hist EXCEPT !.granted = @ + 1]
    /\ UNCHANGED <<db, ops, env, pc, gen, ticker, calls>>

\* the promise resolves with another state ('denied'), or is rejected: the
\* .then and the .catch callback both show the popup
PermissionDenied ==
    /\ timers.permission > 0
    /\ timers' = [timers EXCEPT !.permission = @ - 1]
    /\ scene' = showPermissionDeniedPopup(scene)
    /\ hist' = [hist EXCEPT !.denied = @ + 1]
    /\ UNCHANGED <<db, ops, env, pc, gen, listeners, ticker, calls>>

\* pointerdown on a popup (a destroyed scene is off the stage and gets none)
DismissPopup ==
    /\ pc = "live"
    /\ scene.popups > 0
    /\ scene' = dismissPopup(scene)
    /\ hist' = [hist EXCEPT !.dismissed = @ + 1]
    /\ UNCHANGED <<db, ops, env, pc, gen, listeners, ticker, timers, calls>>

\* destroy(options), called by the owner of the scene at any time after init()
Destroy ==
    /\ pc = "live"
    /\ listeners' = listeners \ {"deviceorientation", "orientationchange",
                                 "keydown", "keyup"}
    /\ ticker' = FALSE
    /\ pc' = "destroyed"
    /\ UNCHANGED <<db, ops, env, gen, scene, timers, calls, hist>>

-----------------------------------------------------------------------------
(* Specifications *)

MaxFrames == 90       \* frames of play explored by Spec
MaxInputs == 1        \* input events explored by Spec

Generate == WalkStep \/ WalkDone \/ ReachStep \/ InitFinish

\* Level generation alone, over every environment
GenEnvs == 1..Len(Envs)

InitGen == Init0(GenEnvs)

SpecGen == InitGen /\ [][Generate]_vars

\* init() runs to its end once called: no step of it waits for anything
GenFairEnvs == {5, 7, 8, 11}

InitGenFair == Init0(GenFairEnvs)

SpecGenFair == InitGenFair /\ [][Generate]_vars /\ WF_vars(Generate)

\* Whole runs without input: the alien bounces where it spawned
RunEnvs == {1, 2, 9, 11, 12}

InitRun == Init0(RunEnvs)

NextRun == Generate \/ Start \/ Tick \/ TimerFire

SpecRun == InitRun /\ [][NextRun]_vars

\* The first frames of play with input events
PlayEnvs == {3, 4}

Init == Init0(PlayEnvs)

PlayTick == hist.frames < MaxFrames /\ Tick
PlayKeyDown == hist.inputs < MaxInputs /\ KeyDown
PlayKeyUp == hist.inputs < MaxInputs /\ KeyUp
PlayTilt == hist.inputs < MaxInputs /\ Tilt
PlayOrientationChange == hist.inputs < MaxInputs /\ OrientationChange

Next ==
    \/ Generate
    \/ Start
    \/ PlayTick
    \/ TimerFire
    \/ PlayKeyDown
    \/ PlayKeyUp
    \/ PlayTilt
    \/ PlayOrientationChange

Spec == Init /\ [][Next]_vars

\* The life of a scene from init() to destroy(), with the permission request
\* of a tilt-controlled device
MaxTaps == 2          \* taps on the start overlay explored by SpecLife
MaxLifeFrames == 3    \* frames of play explored by SpecLife

LifeEnvs == {6, 10}

InitLife == Init0(LifeEnvs)

LifeTapStart == timers.permission + hist.granted + hist.denied < MaxTaps /\ TapStart

LifeTick == hist.frames < MaxLifeFrames /\ Tick

NextLife ==
    \/ Generate
    \/ LifeTapStart
    \/ PermissionGranted
    \/ PermissionDenied
    \/ DismissPopup
    \/ LifeTick
    \/ TimerFire
    \/ PlayKeyDown
    \/ PlayTilt
    \/ Destroy

SpecLife == InitLife /\ [][NextLife]_vars

\* Steering: a few frames of play on a phone, with several input events
MaxSteerFrames == 4   \* frames of play explored by SpecSteer
MaxSteerInputs == 4   \* input events explored by SpecSteer

SteerEnvs == {8}

InitSteer == Init0(SteerEnvs)

SteerTick == hist.frames < MaxSteerFrames /\ Tick
SteerKeyDown == hist.inputs < MaxSteerInputs /\ KeyDown
SteerKeyUp == hist.inputs < MaxSteerInputs /\ KeyUp
SteerTilt == hist.inputs < MaxSteerInputs /\ Tilt
SteerOrientationChange == hist.inputs < MaxSteerInputs /\ OrientationChange

NextSteer ==
    \/ Generate
    \/ Start
    \/ SteerTick
    \/ SteerKeyDown
    \/ SteerKeyUp
    \/ SteerTilt
    \/ SteerOrientationChange

SpecSteer == InitSteer /\ [][NextSteer]_vars

\* Whole runs under continued frame ticks, with key events in the first
\* frames of play.  Ticker.shared calls update on every animation frame for
\* as long as the callback is registered.
MaxEndFrames == 300   \* frames of play explored by SpecEnd

EndEnvs == {11}

InitEnd == Init0(EndEnvs)

EndTick == hist.frames < MaxEndFrames /\ Tick
EndKeyDown == hist.frames < MaxSteerFrames /\ hist.inputs < MaxInputs /\ KeyDown
EndKeyUp == hist.frames < MaxSteerFrames /\ hist.inputs < MaxInputs /\ KeyUp

NextEnd ==
    \/ Generate
    \/ Start
    \/ EndTick
    \/ TimerFire
    \/ EndKeyDown
    \/ EndKeyUp

SpecEnd == InitEnd /\ [][NextEnd]_vars /\ WF_vars(EndTick)

-----------------------------------------------------------------------------
(* The database functions of firebase.ts.  get, set and runTransaction are *)
(* single operations of the database; an async function is at "get" or at *)
(* "set" while the operation it awaits is under way, and other calls run  *)
(* meanwhile.                                                              *)

sceneVars == <<env, pc, gen, scene, listeners, ticker, timers, calls, hist>>

\* a call that has run to its end in one operation of the database
Done(op) == [op |-> op, pc |-> "done", songIndex |-> 0, currentRound |-> 0,
             nextStatus |-> "none"]

\* onAuthStateChanged calls the callback of initAnonymousUser with a user:
\* get(userRef) is under way
AuthCallback ==
    /\ ops' = Append(ops, [Done("init") EXCEPT !.pc = "get"])
    /\ UNCHANGED <<db, sceneVars>>

\* initAnonymousUser after `await get(userRef)`: set(userRef, ...) is under
\* way if the snapshot has no data, else the promise resolves
InitGet(k) ==
    /\ ops[k].op = "init" /\ ops[k].pc = "get"
    /\ ops' = [ops EXCEPT ![k].pc = IF RecordExists(db) THEN "done" ELSE "set"]
    /\ UNCHANGED <<db, sceneVars>>

\* initAnonymousUser's set(userRef, {coins: 0, high_score: 0, songs: ...})
InitSet(k) ==
    /\ ops[k].op = "init" /\ ops[k].pc = "set"
    /\ db' = SeedRecord
    /\ ops' = [ops EXCEPT ![k].pc = "done"]
    /\ UNCHANGED sceneVars

\* updateUserCoins(userId, coinsToAdd): runTransaction on users/<uid>/coins
UpdateUserCoins ==
    /\ \E coinsToAdd \in {1, 5} :
          db' = [db EXCEPT !.coins = (IF @ = NoValue THEN 0 ELSE @) + coinsToAdd]
    /\ ops' = Append(ops, Done("coins"))
    /\ UNCHANGED sceneVars

\* writeUserData(userId, coins, highScore): set of {coins, high_score}
WriteUserData ==
    /\ \E coins \in {0, 5}, highScore \in {7} :
          db' = [NoRecord EXCEPT !.coins = coins, !.high_score = highScore]
    /\ ops' = Append(ops, Done("write"))
    /\ UNCHANGED sceneVars

\* updateUserSongStatusToNext(userId, songIndex, currentRound) is called:
\* get(songRef) is under way
SongCall ==
    /\ \E songIndex \in {0, 1}, currentRound \in {0, 1, 3} :
          ops' = Append(ops, [op |-> "song", pc |-> "get", songIndex |-> songIndex,
                              currentRound |-> currentRound, nextStatus |-> "none"])
    /\ UNCHANGED <<db, sceneVars>>

\* updateUserSongStatusToNext after `await get(songRef)`, with the status the
\* snapshot holds: it throws, returns, or goes on to set(songRef, nextStatus)
songAfterGet(o, currentStatus) ==
    LET currentIndex == IndexOf(currentStatus)
    IN  IF currentStatus = "none" THEN [o EXCEPT !.pc = "failed"]
        ELSE IF o.currentRound < currentIndex THEN [o EXCEPT !.pc = "done"]
        ELSE IF currentIndex = -1 \/ currentIndex >= Len(STATUS_ORDER) - 1
        THEN [o EXCEPT !.pc = "done"]
        ELSE [o EXCEPT !.pc = "set", !.nextStatus = STATUS_ORDER[currentIndex + 2]]

SongGet(k) ==
    /\ ops[k].op = "song" /\ ops[k].pc = "get"
    /\ ops' = [ops EXCEPT ![k] = songAfterGet(@, db.songs[@.songIndex])]
    /\ UNCHANGED <<db, sceneVars>>

\* updateUserSongStatusToNext's set(songRef, nextStatus)
SongSet(k) ==
    /\ ops[k].op = "song" /\ ops[k].pc = "set"
    /\ db' = [db EXCEPT !.songs[ops[k].songIndex] = ops[k].nextStatus]
    /\ ops' = [ops EXCEPT ![k].pc = "done"]
    /\ UNCHANGED sceneVars

MaxCalls == 3         \* calls of the database functions explored by SpecStore

\* the player is new, or has the record of an earlier session
InitStore ==
    /\ InitScene({1})
    /\ db \in {NoRecord, SeedRecord}
    /\ ops = <<>>

StoreAuthCallback == Len(ops) < MaxCalls /\ AuthCallback
StoreUpdateUserCoins == Len(ops) < MaxCalls /\ UpdateUserCoins
StoreWriteUserData == Len(ops) < MaxCalls /\ WriteUserData
StoreSongCall == Len(ops) < MaxCalls /\ SongCall
StoreInitGet == \E k \in 1..Len(ops) : InitGet(k)
StoreInitSet == \E k \in 1..Len(ops) : InitSet(k)
StoreSongGet == \E k \in 1..Len(ops) : SongGet(k)
StoreSongSet == \E k \in 1..Len(ops) : SongSet(k)

NextStore ==
    \/ StoreAuthCallback
    \/ StoreInitGet
    \/ StoreInitSet
    \/ StoreUpdateUserCoins
    \/ StoreWriteUserData
    \/ StoreSongCall
    \/ StoreSongGet
    \/ StoreSongSet

SpecStore == InitStore /\ [][NextStore]_vars

-----------------------------------------------------------------------------
(* Properties *)

Live == pc = "live"

\* this step is a playing frame / a playing frame in which the camera shifts
IsFrame == hist'.frames = hist.frames + 1
IsShiftFrame == IsFrame /\ hist'.dy > 0

\* highestY as init() sets it, and the camera shift since then
anchor0 == SpawnY - Px(32)
shiftSoFar == anchor0 - scene.highestY

\* the hazard's top on the screen as updateSolarStorm computes it, and its cap
stormTop == scene.solarStormY - scene.highestY
stormCap == (scene.alienY - alienHalf) + Px(500)

\* the elements of seq with identity id (none or one)
WithId(seq, id) == {i \in 1..Len(seq) : seq[i].id = id}

\* C1 (as claimed): over a whole run at most one terminal overlay is shown and
\* onGameOver is invoked at most once.  Violated: two monsters that touch the
\* alien in one frame each show a game-over overlay and each start a timer.
C1_OneOverlayOneCallback ==
    /\ scene.shownGameOver + scene.shownWin <= 1
    /\ timers.gameOver + timers.win + calls <= 1

\* C2 (as claimed): when the alien's screen y exceeds the viewport height the
\* run goes to game-over exactly once and onGameOver is called exactly once.
\* Violated: a monster touching the alien in the frame in which it leaves the
\* screen has already shown one overlay when the fall check shows another.
C2_FallEndsRunOnce ==
    (Live /\ scene.alienY > Px(H)) =>
        /\ scene.shownGameOver = 1
        /\ timers.gameOver + calls = 1

\* C3 (as claimed): in the frame in which the climbed height reaches 5000 only
\* the win overlay is shown, no game-over overlay and no game-over callback.
\* Violated: the monster check of that frame runs first and is not undone.
C3_WinShowsNoGameOver ==
    scene.shownWin > 0 => (scene.shownGameOver = 0 /\ timers.gameOver = 0)

C5_StormOnlyClimbs ==
    [][Live =>
          /\ scene'.solarStormY <= scene.solarStormY
          /\ IsFrame => scene'.solarStormY <= scene.solarStormY - solarStormSpeed]_vars

\* the alien is falling in play and the hazard is above its cap
C5_FallingAheadOfCap ==
    /\ Playing(scene) /\ hist.frames >= 1
    /\ scene.velocityY > 0
    /\ stormTop < stormCap

\* C6: the score never decreases from one state of a run to the next.
C6_ScoreNeverDecreases == [][scene'.score >= scene.score]_vars

\* points were scored, an input event was handled, and the alien is falling
C6_ScoredSteeredFalling ==
    scene.score > 0 /\ hist.inputs > 0 /\ scene.velocityY > 0 /\ scene.velocityX # 0

\* C7 (as claimed): the score is the number of whole pixels the camera has
\* shifted so far.  Violated: each shift adds Math.floor(dy), and the
\* fractions lost add up.
C7_ScoreIsShift == Live => scene.score = shiftSoFar \div Unit

\* C7 (amended): the score changes only in a frame in which the camera shifts
\* by a pixel or more; it never exceeds the camera shift so far and falls
\* short of it by less than one pixel per frame in which the camera shifted.
C7_ScoreIsSumOfFloors ==
    [][/\ scene'.score # scene.score => IsFrame /\ hist'.dy >= Unit
       /\ Live' => /\ scene'.score * Unit <= (anchor0 - scene'.highestY)
                   /\ (anchor0 - scene'.highestY) - scene'.score * Unit
                         <= hist'.shifts * (Unit - 1)]_vars

\* the camera has shifted several times while the alien moved sideways, and
\* the score is behind the shift by more than a pixel
C7_ScoreBehind ==
    /\ hist.shifts >= 2 /\ scene.velocityX # 0
    /\ scene.score < shiftSoFar \div Unit

\* in this step every platform that stays, with its pickup, is dy lower on the
\* screen than before
PlatformsShiftBy(dy) ==
    \A i \in 1..Len(scene'.platforms) :
        \A j \in WithId(scene.platforms, scene'.platforms[i].id) :
            /\ scene'.platforms[i].spriteY = scene.platforms[j].spriteY + dy
            /\ scene'.platforms[i].powerupType # "none"
                  => scene'.platforms[i].powerupY = scene.platforms[j].powerupY + dy

\* C8 (as claimed): in a frame in which the camera shifts by d > 0, every
\* platform with its pickup, every monster and the hazard end the frame d
\* lower on the screen than they began it.  Violated: the hazard also climbs
\* in that frame, and a monster also moves by its own velocity.
C8_AllShiftByDelta ==
    [][IsShiftFrame =>
          /\ PlatformsShiftBy(hist'.dy)
          /\ \A i \in 1..Len(scene'.monsters) :
                \A j \in WithId(scene.monsters, scene'.monsters[i].id) :
                    scene'.monsters[i].spriteY = scene.monsters[j].spriteY + hist'.dy
          /\ scene'.stormY = scene.stormY + hist'.dy]_vars

\* C8 (amended): in a frame in which the camera shifts by d > 0, every
\* platform that stays, with its pickup, ends the frame d lower on the screen;
\* every monster that stays ends it d plus its own vertical velocity lower;
\* the hazard, once a frame has placed it, ends it at most d minus the climb
\* speed lower.
C8_ShiftPlusOwnMotion ==
    [][IsShiftFrame =>
          /\ PlatformsShiftBy(hist'.dy)
          /\ \A i \in 1..Len(scene'.monsters) :
                \A j \in WithId(scene.monsters, scene'.monsters[i].id) :
                    scene'.monsters[i].spriteY
                        = scene.monsters[j].spriteY + hist'.dy + scene.monsters[j].vy
          /\ hist.frames >= 1 =>
                scene'.stormY <= scene.stormY + hist'.dy - solarStormSpeed]_vars

\* the camera shifted in the last frame, with a pickup and a moving monster
\* on the screen
C8_ShiftedWithPickupAndMonster ==
    /\ hist.frames >= 2 /\ hist.dy > 0
    /\ \E i \in 1..Len(scene.platforms) :
          /\ scene.platforms[i].powerupType # "none"
          /\ scene.platforms[i].powerupY > 0
          /\ scene.platforms[i].powerupY < Px(H)
    /\ \E i \in 1..Len(scene.monsters) :
          /\ scene.monsters[i].vy # 0
          /\ scene.monsters[i].spriteY > 0
          /\ scene.monsters[i].spriteY < Px(H - 200)

\* C9 (as claimed): after a frame, the screen y of every platform, monster and
\* the hazard is its world y minus highestY.  Violated: highestY starts at
\* the alien's y, not at 0, so a platform is on the screen at its world y
\* plus the camera shift.
C9_ScreenIsWorldMinusAnchor ==
    hist.frames >= 1 =>
        /\ \A i \in 1..Len(scene.platforms) :
              scene.platforms[i].spriteY = scene.platforms[i].y - scene.highestY
        /\ \A i \in 1..Len(scene.monsters) :
              scene.monsters[i].spriteY = scene.monsters[i].y - scene.highestY
        /\ scene.stormY = scene.solarStormY - scene.highestY

\* C9 (amended): the screen y of every platform is its generated y plus the
\* camera shift so far, and its pickup is 24 px above it; after a frame the
\* hazard's screen y is solarStormY minus highestY; a monster is away from
\* its generated y plus the camera shift by what it has moved itself, at most
\* its speed per frame.
C9_ScreenIsWorldPlusShift ==
    Live =>
        /\ \A i \in 1..Len(scene.platforms) :
              /\ scene.platforms[i].spriteY = scene.platforms[i].y + shiftSoFar
              /\ scene.platforms[i].powerupType # "none"
                    => scene.platforms[i].powerupY
                          = scene.platforms[i].y - Px(24) + shiftSoFar
        /\ \A i \in 1..Len(scene.monsters) :
              Abs(scene.monsters[i].spriteY - (scene.monsters[i].y + shiftSoFar))
                  <= hist.frames * Abs(scene.monsters[i].vy)
        /\ hist.frames >= 1 => scene.stormY = scene.solarStormY - scene.highestY

\* the camera has shifted and a monster has moved away from where the shift
\* alone would have put it
C9_ShiftedAndDrifted ==
    /\ hist.shifts >= 1 /\ shiftSoFar > 0
    /\ \E i \in 1..Len(scene.monsters) :
          scene.monsters[i].spriteY # scene.monsters[i].y + shiftSoFar

\* Q is above P within a jump: at most maxJumpHeight higher, at most
\* maxHorizontalReach to the side
Above(P, Q) ==
    /\ Q.y < P.y
    /\ P.y - Q.y <= maxJumpHeight
    /\ Abs(Q.x - P.x) <= maxHorizontalReach

HasNext(i) ==
    \E j \in 1..Len(scene.platforms) : Above(scene.platforms[i], scene.platforms[j])

AtSpawn == Live /\ Playing(scene) /\ hist.frames = 0

\* C11 (as claimed): with no steering, at the end of the first frame of a run
\* the alien's vertical velocity is the gravity constant and its y is that
\* much greater than at spawn.  Violated: the alien spawns 32 px above its
\* platform, within the platform test of the collision loop, so the first
\* frame ends with the jump velocity.
C11_FirstFrameFalls ==
    (hist.frames = 1 /\ hist.inputs = 0) =>
        /\ scene.velocityY = gravity
        /\ scene.alienY = anchor0 + gravity

\* C11 (amended): from the spawn state the gravity step of the first frame
\* leaves the vertical velocity at the gravity constant and y greater by that
\* amount; the collision loop of the same frame then lands the alien on its
\* spawn platform, so at the end of the first frame the vertical velocity is
\* the jump velocity, with y still greater than at spawn by the gravity
\* constant.
C11_FirstFrameLands ==
    /\ AtSpawn =>
          LET g == thrust(steer(scene), E.deltaMS)
          IN  /\ g.velocityY = gravity
              /\ g.alienY = scene.alienY + gravity
              /\ g.alienWorldY = scene.alienWorldY + gravity
    /\ hist.frames = 1 =>
          /\ scene.velocityY = jumpVelocity
          /\ scene.alienY = anchor0 + gravity
          /\ scene.alienWorldY = anchor0 + gravity
          /\ hist.landed.id # 0 /\ scene.platforms[hist.landed.id].y = SpawnY

\* the first frame has run without any input and the alien is going up
C11_Bounced ==
    hist.frames = 1 /\ hist.inputs = 0 /\ hist.tick = "frame" /\ scene.velocityY < 0

\* C12: a landing made while the bounce boost is pending (powercellActive
\* true) leaves the vertical velocity at exactly 1.7 x the jump velocity,
\* whatever pickup the platform carries, and the flag false.  The flag is
\* pending only inside the landing that collects a powercell: it is false at
\* the end of every frame, and a landing ends with 1.7 x the jump velocity on
\* a powercell platform and with the jump velocity on any other.
C12_BoostedLanding ==
    Live =>
        /\ \A i \in 1..Len(scene.platforms) :
              LET b == bounce([scene EXCEPT !.powercellActive = TRUE], scene.platforms[i])
              IN  b.velocityY = boost(jumpVelocity) /\ ~b.powercellActive
        /\ ~scene.powercellActive
        /\ (hist.tick = "frame" /\ hist.landed.id # 0) =>
              scene.velocityY = IF hist.landed.powerupType = "powercell"
                                THEN boost(jumpVelocity) ELSE jumpVelocity

\* the last frame landed on a platform carrying a powercell, and another
\* powercell and a rocket are still to be had
C12_LandedOnPowercell ==
    /\ hist.tick = "frame" /\ hist.landed.powerupType = "powercell"
    /\ scene.velocityY = boost(jumpVelocity)
    /\ \E i \in 1..Len(scene.platforms) : scene.platforms[i].powerupType = "powercell"
    /\ \E i \in 1..Len(scene.platforms) : scene.platforms[i].powerupType = "rocket"

C14_DestroyedIsInert ==
    [][pc' = "destroyed" =>
          /\ listeners' = {}
          /\ ~ticker'
          /\ pc = "destroyed" => (scene' = scene /\ calls' = calls)]_vars

\* C19: when every permission request so far was denied or failed, no tilt
\* listener is registered and the run has not ended before its first frame;
\* once a denial popup has been dismissed the game is started, the start
\* overlay is gone and, unless the scene has been destroyed, the keyboard
\* listeners and the frame callback are registered.
C19_DeniedFallsBack ==
    (hist.denied > 0 /\ hist.granted = 0) =>
        /\ listeners \cap {"deviceorientation", "orientationchange"} = {}
        /\ ~scene.tiltPermissionGranted
        /\ hist.frames = 0 => ~scene.isGameOver
        /\ hist.dismissed > 0 =>
              /\ scene.gameStarted /\ ~scene.startOverlay
              /\ pc = "live" => ({"keydown", "keyup"} \subseteq listeners /\ ticker)

\* permission was denied, the popup dismissed, and the alien has been steered
\* with a key for a frame
C19_PlayingWithKeys ==
    /\ hist.denied > 0 /\ hist.granted = 0 /\ hist.dismissed > 0
    /\ scene.usingKeyboard /\ hist.frames >= 1 /\ scene.velocityX # 0

\* C17: gameStarted, once true, stays true; isGameOver, once true, stays
\* true; and isGameOver is never true while gameStarted is false.
C17_ForwardOnly ==
    [][/\ scene.gameStarted => scene'.gameStarted
       /\ scene.isGameOver => scene'.isGameOver
       /\ scene'.isGameOver => scene'.gameStarted]_vars

\* startGame() has run twice, from two popups, and the run has ended
C17_RestartedWhenOver ==
    /\ scene.isGameOver /\ scene.gameStarted
    /\ hist.dismissed >= 2 /\ hist.frames >= 1 /\ scene.popups = 0
    /\ pc = "live"

\* what the physics of a frame moves: the alien, the platforms and monsters,
\* the score, the camera anchor and the hazard
Physical(s) ==
    <<s.alienX, s.alienY, s.alienWorldY, s.velocityX, s.velocityY,
      s.platforms, s.monsters, s.score, s.highestY, s.solarStormY, s.stormY>>

\* C15: a frame tick of a run that is over (isGameOver) changes neither the
\* alien's position and velocity, nor the platforms and monsters, the score,
\* the camera anchor or the hazard, and shows no further overlay.
C15_OverIsFrozen ==
    [][(scene.isGameOver /\ Tick) =>
          /\ Physical(scene') = Physical(scene)
          /\ scene'.shownGameOver = scene.shownGameOver
          /\ scene'.shownWin = scene.shownWin
          /\ timers' = timers]_vars

\* the run is over, a tick has run since, and the alien was moving when the
\* run ended
C15_TickedWhenOver ==
    /\ scene.isGameOver /\ hist.tick = "ended"
    /\ scene.velocityY # 0 /\ hist.frames >= 2

\* C16: while the game is not started the alien, the platforms, the monsters,
\* the score, the camera anchor and the hazard are exactly as init() left
\* them, whatever ticks and input events have happened, and the hazard is
\* invisible; it is visible once the game is started.
C16_FrozenUntilStart ==
    Live =>
        /\ ~scene.gameStarted =>
              /\ scene.alienY = anchor0 /\ scene.alienWorldY = anchor0
              /\ scene.velocityX = 0 /\ scene.velocityY = 0
              /\ scene.score = 0 /\ scene.highestY = anchor0
              /\ scene.solarStormY = anchor0 + Px(840) /\ scene.stormY = Px(600)
              /\ \A i \in 1..Len(scene.platforms) :
                    scene.platforms[i].spriteY = scene.platforms[i].y
              /\ Len(scene.monsters) = numMonsters
              /\ \A i \in 1..Len(scene.monsters) :
                    /\ scene.monsters[i].spriteY = scene.monsters[i].y
                    /\ scene.monsters[i].spriteX = scene.monsters[i].x
              /\ ~scene.stormVisible
              /\ hist.frames = 0
        /\ scene.gameStarted => scene.stormVisible

\* the game is not started, a tick has run and an input event was handled
C16_TickedBeforeStart ==
    /\ Live /\ ~scene.gameStarted
    /\ hist.tick = "frozen" /\ hist.inputs > 0

\* C18: the steering value that the next frame consumes (keyboardTilt while a
\* key is held, else tilt) is between -1 and 1, after any tilt readings and
\* key events; so is the tilt value kept aside while a key is held.
C18_SteeringInRange ==
    Live =>
        /\ Abs(effectiveTilt(scene)) <= TiltUnit
        /\ Abs(scene.tilt) <= TiltUnit
        /\ Abs(scene.keyboardTilt) <= TiltUnit

\* a reading beyond maxTilt was taken, a key was pressed and released, and a
\* frame has steered by the full tilt value 0.8
C18_FullTiltAfterKeys ==
    /\ hist.inputs >= 3 /\ hist.frames >= 2
    /\ ~scene.usingKeyboard
    /\ effectiveTilt(scene) = (8 * TiltUnit) \div 10
    /\ scene.velocityX > 0

\* C20 (as claimed): whenever the win overlay has been shown, the alien's
\* world y is at least 5000 px above the world y at which it spawned.
\* Violated: update measures the height from spawnY, the y of the spawn row,
\* and the alien spawns 32 px above that.
C20_WonAt5000Climbed ==
    scene.shownWin > 0 => anchor0 - scene.alienWorldY >= Px(5000)

\* C20 (amended): the win overlay is shown in a frame exactly when that frame
\* ends with the alien's world y at least 5000 px above spawnY, the y of the
\* spawn row (4968 px above the y at which the alien spawned); no frame runs
\* after it, and the overlay is shown by nothing else.
C20_WonAt5000AboveRow ==
    [][/\ IsFrame =>
            (scene'.shownWin = scene.shownWin + 1
                <=> SpawnY - scene'.alienWorldY >= Px(5000))
       /\ ~IsFrame => scene'.shownWin = scene.shownWin
       /\ scene'.shownWin > 0 => scene'.isGameOver
       /\ scene'.shownWin <= 1]_vars

\* the run is won while the alien has climbed less than 5000 px from where it
\* spawned
C20_WonBelow5000Climbed ==
    /\ scene.shownWin = 1
    /\ SpawnY - scene.alienWorldY >= Px(5000)
    /\ anchor0 - scene.alienWorldY < Px(5000)
    /\ anchor0 - scene.alienWorldY >= Px(5000 - 32)

\* the left and right keys that the key events so far say are down
HeldSteeringKeys == hist.held \cap (LeftKeys \cup RightKeys)

\* C21 (as claimed): after the press or release of a left or right key, while
\* at least one left or right key is held, keyboard steering is -0.4 or +0.4
\* and the keyboard is the dominant input.  Violated: handleKeyUp clears both
\* on the release of any one of the keys, whatever other keys are still down.
C21_HeldKeySteers ==
    [][(HeldSteeringKeys' # HeldSteeringKeys /\ HeldSteeringKeys' # {}) =>
          /\ scene'.usingKeyboard
          /\ Abs(scene'.keyboardTilt) = (4 * TiltUnit) \div 10]_vars

\* the scene of this frame after steering and the vertical move, as the
\* collision loop finds it
AfterMove == thrust(steer(scene), E.deltaMS)

\* in this frame platform p is taken out of the scene other than by the cull,
\* or loses or changes its pickup
Resolved(p) ==
    LET same == WithId(scene'.platforms, p.id)
    IN  IF same = {} THEN ~(p.spriteY + hist'.dy > Px(H + 50))
        ELSE \E k \in same : scene'.platforms[k].powerupType # p.powerupType

\* C22: in every frame (a) while the alien is rising or at rest after the
\* vertical move, or thrust is active, the collision loop changes nothing: the
\* vertical velocity and the thrust state are those of the vertical move, no
\* platform leaves the scene but by the cull and no pickup is collected;
\* (b) at most one platform is broken or loses its pickup; (c) of two
\* platforms within the half-box distances the later in iteration order is
\* left as it is; (d) a falling alien within the half-box distances of some
\* platform ends the frame with the jump impulse or 1.7 times it.
C22_FirstTouchedLands ==
    [][IsFrame =>
        LET g == AfterMove
            ps == scene.platforms
            hits == {i \in 1..Len(ps) : Touches(g, ps[i])}
        IN  /\ (g.rocketActive \/ ~(g.velocityY > 0)) =>
                  /\ scene'.velocityY = g.velocityY
                  /\ scene'.rocketActive = g.rocketActive
                  /\ scene'.rocketTimer = g.rocketTimer
                  /\ \A i \in 1..Len(ps) : ~Resolved(ps[i])
            /\ Cardinality({i \in 1..Len(ps) : Resolved(ps[i])}) <= 1
            /\ \A i \in hits, j \in hits : i < j => ~Resolved(ps[j])
            /\ \A i \in 1..Len(ps) : Resolved(ps[i]) => i \in hits
            /\ (~g.rocketActive /\ g.velocityY > 0 /\ hits # {}) =>
                  scene'.velocityY \in {jumpVelocity, boost(jumpVelocity)}]_vars

\* the last frame landed the falling alien on a plain platform while a
\* platform later in iteration order, within the half-box distances too, still
\* carries its powercell
C22_FirstOfTwoWins ==
    /\ hist.tick = "frame" /\ scene.velocityY = jumpVelocity
    /\ \E i \in 1..Len(scene.platforms), j \in 1..Len(scene.platforms) :
          /\ i < j
          /\ scene.platforms[i].id = hist.landed.id
          /\ Touches(scene, scene.platforms[i])
          /\ Touches(scene, scene.platforms[j])
          /\ scene.platforms[j].powerupType = "powercell"

\* C23: a frame that begins with thrust active moves the alien up by exactly
\* 0.95 x |jumpVelocity| and ends with that velocity; it takes the frame's
\* elapsed time, which is positive, off the thrust timer, and leaves thrust
\* active exactly if the timer is still above zero, so the timer is never
\* re-armed during the thrust.  A frame that begins without thrust moves the
\* alien by its velocity plus gravity, and arms the timer, at 4000 ms, only by
\* landing on a rocket.  Nothing but a frame changes the thrust state.
C23_ThrustFrames ==
    [][/\ (IsFrame /\ scene.rocketActive) =>
            /\ scene'.velocityY = -((Abs(jumpVelocity) * 95) \div 100)
            /\ scene'.alienWorldY = scene.alienWorldY + scene'.velocityY
            /\ E.deltaMS > 0
            /\ scene'.rocketTimer = scene.rocketTimer - E.deltaMS
            /\ scene'.rocketActive <=> scene'.rocketTimer > 0
       /\ (IsFrame /\ ~scene.rocketActive) =>
            /\ scene'.alienWorldY = scene.alienWorldY + scene.velocityY + gravity
            /\ IF hist'.landed.powerupType = "rocket"
               THEN scene'.rocketActive /\ scene'.rocketTimer = 4000
               ELSE ~scene'.rocketActive /\ scene'.rocketTimer = scene.rocketTimer
       /\ ~IsFrame =>
            /\ scene'.rocketActive = scene.rocketActive
            /\ scene'.rocketTimer = scene.rocketTimer]_vars

\* a thrust has run its 4000 ms out, and the frame after its last has let
\* gravity slow the climb
C23_ThrustOver ==
    /\ hist.tick = "frame" /\ ~scene.rocketActive
    /\ scene.rocketTimer <= 0 /\ scene.rocketTimer > -E.deltaMS
    /\ scene.velocityY = gravity - (Abs(jumpVelocity) * 95) \div 100

\* C24: a frame that lands the alien on a platform carrying a rocket ends with
\* thrust active and the thrust timer at 4000 ms, and with that platform
\* carrying no pickup, so that a landing on it as it is left activates no
\* thrust; no pickup is collected from a platform from which one was collected
\* before, no platform gets a pickup back, and a frame that lands on a
\* platform without a rocket activates no thrust.
C24_RocketTakenOnce ==
    [][IsFrame =>
        /\ hist'.landed.powerupType = "rocket" =>
              /\ ~scene.rocketActive
              /\ scene'.rocketActive /\ scene'.rocketTimer = 4000
              /\ \A k \in WithId(scene'.platforms, hist'.landed.id) :
                    /\ scene'.platforms[k].powerupType = "none"
                    /\ scene'.platforms[k].powerupY = 0
                    /\ ~bounce([scene' EXCEPT !.rocketActive = FALSE],
                               scene'.platforms[k]).rocketActive
        /\ hist'.landed.powerupType # "none" => hist'.landed.id \notin hist.collected
        /\ (hist'.landed.powerupType # "rocket" /\ ~scene.rocketActive) =>
              (~scene'.rocketActive /\ scene'.rocketTimer = scene.rocketTimer)
        /\ \A i \in 1..Len(scene'.platforms) :
              \A j \in WithId(scene.platforms, scene'.platforms[i].id) :
                  scene.platforms[j].powerupType = "none"
                      => scene'.platforms[i].powerupType = "none"]_vars

\* the alien has landed a second time on the platform from which it took a
\* rocket, and bounces with no thrust
C24_LandedAgain ==
    /\ hist.tick = "frame" /\ hist.landed.id \in hist.collected
    /\ hist.landed.powerupType = "none"
    /\ ~scene.rocketActive /\ scene.rocketTimer <= 0
    /\ scene.velocityY = jumpVelocity

\* C25: a frame that lands the alien on a platform carrying a powercell ends
\* with the vertical velocity at 1.7 x the jump velocity and with no boost
\* pending; the platform is left without a pickup, and a landing on it as it
\* is left, like a landing on any platform that carries no powercell, gives
\* the plain jump velocity.
C25_PowercellBoostsNow ==
    [][(IsFrame /\ hist'.landed.powerupType = "powercell") =>
        /\ scene'.velocityY = TruncDiv(jumpVelocity * 17, 10)
        /\ ~scene'.powercellActive
        /\ ~scene'.rocketActive
        /\ \A k \in WithId(scene'.platforms, hist'.landed.id) :
              /\ scene'.platforms[k].powerupType = "none"
              /\ scene'.platforms[k].powerupY = 0
        /\ \A k \in 1..Len(scene'.platforms) :
              scene'.platforms[k].powerupType # "powercell" =>
                  bounce(scene', scene'.platforms[k]).velocityY = jumpVelocity]_vars

\* the last frame took the powercell of a platform that is still in the
\* scene, without its pickup, and the alien climbs at 1.7 x the jump velocity
C25_PowercellTaken ==
    /\ hist.tick = "frame" /\ hist.landed.id \in hist.collected
    /\ hist.landed.powerupType = "powercell"
    /\ \E k \in WithId(scene.platforms, hist.landed.id) :
          scene.platforms[k].powerupType = "none"
    /\ scene.velocityY = TruncDiv(jumpVelocity * 17, 10)
    /\ scene.velocityY < jumpVelocity

\* at the end of a frame: is some monster of the scene within 32 px of the
\* alien on both axes; does the hazard's rectangle overlap the alien's box
MonsterNear(s) ==
    \E i \in 1..Len(s.monsters) :
        /\ Abs(s.alienX - s.monsters[i].spriteX) < Px(32)
        /\ Abs(s.alienY - s.monsters[i].spriteY) < Px(32)

StormOverlaps(s) ==
    /\ s.alienY + Px(alienSize) \div 2 > s.stormY
    /\ s.alienY - Px(alienSize) \div 2 < s.stormY + Px(E.stormHeight)
    /\ s.alienX + Px(alienSize) \div 2 > 0
    /\ s.alienX - Px(alienSize) \div 2 < Px(W)

\* C26: a playing frame that ends with a monster, moved, within 32 px of the
\* alien on both axes, or with the hazard, updated, overlapping the alien's
\* box, ends with the run over and an overlay shown; and a run that is over
\* stays over, whatever happens next.
C26_TouchIsLethal ==
    [][/\ (IsFrame /\ (MonsterNear(scene') \/ StormOverlaps(scene'))) =>
            /\ scene'.isGameOver /\ ~Playing(scene')
            /\ scene'.shownGameOver > scene.shownGameOver
       /\ scene.isGameOver => (scene'.isGameOver /\ ~Playing(scene'))]_vars

\* the last frame ended the run with a monster within 32 px of the alien,
\* which the hazard had not reached
C26_KilledByMonster ==
    /\ hist.tick = "frame" /\ scene.isGameOver
    /\ MonsterNear(scene) /\ ~StormOverlaps(scene)
    /\ scene.shownGameOver >= 1

\* C27 (as claimed): at the end of every playing frame no platform and no
\* monster of the scene is more than 50 px below the viewport.  Violated:
\* the monsters are culled before they move, so a monster within its own
\* speed of the margin ends the frame beyond it, still in the scene.
C27_NoneBelowMargin ==
    hist.tick = "frame" =>
        /\ \A i \in 1..Len(scene.platforms) : ~(scene.platforms[i].spriteY > Px(H + 50))
        /\ \A i \in 1..Len(scene.monsters) : ~(scene.monsters[i].spriteY > Px(H + 50))

\* C27 (amended): at the end of every playing frame no platform of the scene
\* is more than 50 px below the viewport, and no monster was so when the
\* frame culled, before the monsters moved: a monster is beyond the margin by
\* at most its own vertical speed.  Such a monster is gone after the next
\* playing frame.  A frame removes a platform only if the camera has brought
\* it beyond the margin or the alien has broken it, and a monster only if the
\* camera has brought it beyond the margin.
C27_CulledBeforeMonstersMove ==
    /\ [](hist.tick = "frame" =>
          /\ \A i \in 1..Len(scene.platforms) :
                ~(scene.platforms[i].spriteY > Px(H + 50))
          /\ \A i \in 1..Len(scene.monsters) :
                ~(scene.monsters[i].spriteY - Abs(scene.monsters[i].vy) > Px(H + 50)))
    /\ [][IsFrame =>
            /\ \A i \in 1..Len(scene.platforms) :
                  WithId(scene'.platforms, scene.platforms[i].id) = {} =>
                      \/ scene.platforms[i].spriteY + hist'.dy > Px(H + 50)
                      \/ /\ scene.platforms[i].type = "broken"
                         /\ hist'.landed.id = scene.platforms[i].id
            /\ \A i \in 1..Len(scene.monsters) :
                  /\ WithId(scene'.monsters, scene.monsters[i].id) = {} =>
                        scene.monsters[i].spriteY + hist'.dy > Px(H + 50)
                  /\ scene.monsters[i].spriteY > Px(H + 50) =>
                        WithId(scene'.monsters, scene.monsters[i].id) = {}]_vars

\* the last frame left in the scene a monster that its own move, after the
\* cull, has taken beyond the margin
C27_MonsterBeyondMargin ==
    /\ hist.tick = "frame" /\ Playing(scene)
    /\ \E i \in 1..Len(scene.monsters) :
          /\ scene.monsters[i].spriteY > Px(H + 50)
          /\ scene.monsters[i].spriteY - Abs(scene.monsters[i].vy) <= Px(H + 50)
    /\ hist.shifts > 0

\* C28: init() comes to its end and yields a level.  Each pass of the upward
\* walk, whether it places a platform or all of its 20 tries are rejected,
\* takes y up by at least half the platform spacing.  Each pass of the
\* reachability loop goes on to the next index and adds at most one platform;
\* the platform added is at least 0.7 x maxJumpHeight above the one in hand
\* and not above the map ceiling, and the sort puts it behind the index, so
\* the platforms up to the index stay as they are.
C28_GenerationTerminates ==
    /\ <>(pc = "live")
    /\ [][/\ (pc = "walk" /\ pc' = "walk") =>
                /\ gen'.y <= gen.y - Px(platformSpacing) \div 2
                /\ Len(gen'.platforms) <= Len(gen.platforms) + 1
          /\ (pc = "reach" /\ pc' = "reach") =>
                /\ gen'.i = gen.i + 1
                /\ Len(gen'.platforms) <= Len(gen.platforms) + 1
                /\ SubSeq(gen'.platforms, 1, gen'.i) = SubSeq(gen.platforms, 1, gen'.i)
                /\ \A q \in hist'.synth \ hist.synth :
                      /\ Len(gen'.platforms) = Len(gen.platforms) + 1
                      /\ q[2] <= gen.platforms[gen'.i].y - (Px(jumpHeight) * 7) \div 10
                      /\ q[2] >= SpawnY - Px(mapHeight)]_vars

\* a level is generated in which several levels of the walk had all their
\* tries rejected and the reachability loop added a chain of platforms, each
\* to make the one added before it reachable
C28_LevelWithChain ==
    /\ Live /\ hist.rejected >= 2
    /\ Len(scene.platforms) >= platformCount + Cardinality(hist.synth)
    /\ \E a \in hist.synth, b \in hist.synth, c \in hist.synth :
          /\ b[1] = a[1] /\ b[2] = a[2] - (Px(jumpHeight) * 7) \div 10
          /\ c[1] = b[1] /\ c[2] = b[2] - (Px(jumpHeight) * 7) \div 10

\* the platforms of the level: those init() has so far, then those of the scene
LevelPlatforms == IF pc \in {"walk", "reach"} THEN gen.platforms ELSE scene.platforms

\* are the centres of p and q less than minDist apart
CloserThanMinDist(p, q) ==
    /\ Abs(p.x - q.x) < Px(minDist)
    /\ Abs(p.y - q.y) < Px(minDist)
    /\ (p.x - q.x) * (p.x - q.x) + (p.y - q.y) * (p.y - q.y) < Px(minDist) * Px(minDist)

\* was p added by the reachability loop
Synthesized(p) == <<p.x, p.y>> \in hist.synth

\* C29 (as claimed): in a generated level no two platforms are less than
\* 80 px apart.  Violated: the reachability loop pushes the platform it makes
\* without any distance test.
C29_AllApart ==
    Live => \A i \in 1..Len(scene.platforms), j \in 1..Len(scene.platforms) :
                i < j => ~CloserThanMinDist(scene.platforms[i], scene.platforms[j])

\* C29 (amended): all through init() and in the generated level, no two of
\* the platforms of the spawn row and of the upward walk are less than 80 px
\* apart.  (The platforms added by the reachability loop are under no such
\* test.)
C29_WalkKeepsApart ==
    pc \in {"walk", "reach", "live"} =>
        \A i \in 1..Len(LevelPlatforms), j \in 1..Len(LevelPlatforms) :
            (i < j /\ ~Synthesized(LevelPlatforms[i]) /\ ~Synthesized(LevelPlatforms[j]))
                => ~CloserThanMinDist(LevelPlatforms[i], LevelPlatforms[j])

\* a generated level in which a platform added by the reachability loop is
\* less than 80 px from a platform of the walk, and two platforms of the walk
\* are less than 100 px apart
C29_SynthesizedTooClose ==
    /\ Live /\ hist.rejected >= 1
    /\ \E i \in 1..Len(scene.platforms), j \in 1..Len(scene.platforms) :
          /\ Synthesized(scene.platforms[i]) /\ ~Synthesized(scene.platforms[j])
          /\ scene.platforms[j].y < SpawnY
          /\ CloserThanMinDist(scene.platforms[i], scene.platforms[j])


\* C30 (as claimed): a start action (a granted permission request, a popup
\* dismissed) that arrives when the run has already started leaves the alien's
\* horizontal velocity, the tilt value and the keyboard steering state as
\* they are.  Violated: startGame() resets them whenever it is called.
C30_StartTakesEffectOnce ==
    [][(/\ scene.gameStarted
        /\ \/ hist.granted' # hist.granted
           \/ hist.dismissed' # hist.dismissed)
          => /\ scene'.velocityX = scene.velocityX
             /\ scene'.tilt = scene.tilt
             /\ scene'.usingKeyboard = scene.usingKeyboard
             /\ scene'.keyboardTilt = scene.keyboardTilt]_vars


C32_AlienScreenIsWorldPlusShift ==
    Live => scene.alienY - scene.alienWorldY = shiftSoFar

\* the camera has shifted during a rocket thrust, after landings, and the
\* alien is on the screen away from its world y
C32_ShiftedInThrust ==
    /\ Live /\ hist.shifts > 1 /\ scene.rocketActive
    /\ hist.collected # {}
    /\ scene.velocityX = 0
    /\ scene.alienY # scene.alienWorldY
    /\ scene.alienY = Px(H) \div 2


\* C33: powercellActive is false in every state, so at the start of every
\* landing; and the frame of a landing ends with the bounce of that landing
\* alone: the boosted impulse on a powercell platform, the plain impulse on
\* any other.
C33_NoBoostPending ==
    /\ [](~scene.powercellActive)
    /\ [][(IsFrame /\ hist'.landed # NoLanding)
            => scene'.velocityY = IF hist'.landed.powerupType = "powercell"
                                  THEN boost(jumpVelocity) ELSE jumpVelocity]_vars

\* a plain landing in a run that has collected a powercell before
C33_LandedAfterPowercell ==
    /\ hist.landed # NoLanding /\ hist.landed.powerupType = "none"
    /\ hist.boosted # {}
    /\ scene.velocityY = jumpVelocity
    /\ ~scene.powercellActive


\* the identities in a collection of platforms or of monsters
Ids(seq) == {seq[i].id : i \in 1..Len(seq)}

\* every member of now is a member of before, the same object where it was
\* generated, and now holds no object twice
Remains(before, now) ==
    /\ Ids(now) \subseteq Ids(before)
    /\ Cardinality(Ids(now)) = Len(now)
    /\ \A i \in 1..Len(now) : \A j \in WithId(before, now[i].id) :
          /\ now[i].x = before[j].x
          /\ now[i].y = before[j].y

\* C34: init() ends with every generated platform and with numMonsters (12)
\* monsters in the scene, and from then on no step adds a member to either
\* collection: what a step leaves is part of what it found, so a removed
\* object never comes back.
C34_CollectionsOnlyShrink ==
    [][/\ (pc = "reach" /\ pc' = "live")
            => /\ Len(scene'.monsters) = numMonsters
               /\ Len(scene'.platforms) = Len(gen.platforms)
       /\ pc = "live"
            => /\ Remains(scene.platforms, scene'.platforms)
               /\ Remains(scene.monsters, scene'.monsters)]_vars

\* the last frame removed a broken platform by a landing; platforms of the
\* spawn row and monsters have been culled before
C34_CulledAndCollapsed ==
    /\ hist.tick = "frame" /\ hist.landed.type = "broken"
    /\ WithId(scene.platforms, hist.landed.id) = {}
    /\ WithId(scene.platforms, 1) = {}
    /\ Len(scene.monsters) < numMonsters
    /\ Len(scene.platforms) > 0


\* this step is the set(songRef, nextStatus) of an updateUserSongStatusToNext
IsSongSet ==
    \E k \in 1..Len(ops) : ops[k].op = "song" /\ ops[k].pc = "set" /\ ops'[k].pc = "done"

\* C35 (as claimed): whatever the interleaving of updateUserSongStatusToNext
\* calls, the write of a call never moves a stored song status backward in
\* STATUS_ORDER.  Violated: the call writes the successor of the status it
\* read, and the stored status may have advanced twice since.
C35_StatusNeverMovesBack ==
    [][IsSongSet => \A i \in DOMAIN db.songs :
                       IndexOf(db'.songs[i]) >= IndexOf(db.songs[i])]_vars


\* this step is the set(userRef, ...) of an initAnonymousUser
IsInitSet ==
    \E k \in 1..Len(ops) : ops[k].op = "init" /\ ops[k].pc = "set" /\ ops'[k].pc = "done"

\* C36 (as claimed): the write of initAnonymousUser changes no record that
\* exists when it is made.  Violated: the record is looked up before the
\* write is started, and a record made or updated in between is replaced by
\* the seed.
C36_SeedsOnlyNewRecord ==
    [][IsInitSet => (RecordExists(db) => db' = db)]_vars

=============================================================================
